---- MODULE Spec2Model ----
(***************************************************************************)
(* A model of the Redis watcher of src/src/watcher.rs: the Message wire    *)
(* form, the watcher facade (set_update_callback, the nine update          *)
(* operations, start_subscription, close) and the subscription loops that  *)
(* start_subscription spawns, for watcher instances sharing one pub/sub    *)
(* channel of one Redis server (standalone) or one Redis cluster.          *)
(***************************************************************************)
EXTENDS Integers, Sequences, FiniteSets, TLC

(***************************************************************************)
(* Bounds of the model.                                                    *)
(***************************************************************************)
\* subscription tasks one instance may spawn
MaxTasks == 2
\* calls of the public API in a run, over all instances, and payloads other
\* clients publish
MaxCalls == 3

\* node addresses of the cluster
MaxNodes == 2
Nodes == 1..MaxNodes

Inst == {1, 2}
TaskIds == 1..MaxTasks

\* options.local_id of each instance (options.rs: a fresh uuid by default)
LocalId(w) == IF w = 1 THEN "w1" ELSE "w2"
\* an id no modelled instance has
ForeignId == "w9"
Ids == {LocalId(w) : w \in Inst} \cup {ForeignId}

(***************************************************************************)
(* Message and its wire form.                                              *)
(***************************************************************************)
UpdateType ==
  { "Update", "UpdateForAddPolicy", "UpdateForRemovePolicy",
    "UpdateForRemoveFilteredPolicy", "UpdateForSavePolicy",
    "UpdateForAddPolicies", "UpdateForRemovePolicies",
    "UpdateForUpdatePolicy", "UpdateForUpdatePolicies" }

\* Message::new: every optional field at its default
MessageNew(method, id) ==
  [ method |-> method, id |-> id, sec |-> "", ptype |-> "",
    old_rule |-> <<>>, old_rules |-> <<>>, new_rule |-> <<>>,
    new_rules |-> <<>>, field_index |-> 0, field_values |-> <<>> ]

\* an encoder without skip_serializing_if: every key is written
WireKeysAll(m) ==
  { "Method", "ID", "FieldIndex", "Sec", "Ptype", "OldRule", "OldRules",
    "NewRule", "NewRules", "FieldValues" }

\* The keys serde writes for a Message: Method, ID and FieldIndex always,
\* the others only when skip_serializing_if (is_empty) does not hold.
WireKeys(m) ==
  {"Method", "ID", "FieldIndex"}
    \cup (IF m.sec = "" THEN {} ELSE {"Sec"})
    \cup (IF m.ptype = "" THEN {} ELSE {"Ptype"})
    \cup (IF m.old_rule = <<>> THEN {} ELSE {"OldRule"})
    \cup (IF m.old_rules = <<>> THEN {} ELSE {"OldRules"})
    \cup (IF m.new_rule = <<>> THEN {} ELSE {"NewRule"})
    \cup (IF m.new_rules = <<>> THEN {} ELSE {"NewRules"})
    \cup (IF m.field_values = <<>> THEN {} ELSE {"FieldValues"})

\* A payload on the channel: raw = "json" for a JSON object with the keys
\* `keys` and their values in `val`, any other raw for a text that is no
\* JSON object (the sentinel "Close", a malformed text).
Blank == MessageNew("", "")
TextPayload(t) == [raw |-> t, keys |-> {}, val |-> Blank]
ClosePayload == TextPayload("Close")

\* an encoder that writes one kind of Message as the text "Close"
to_json_sentinel(m) ==
  LET ks == WireKeys(m) IN
  IF m.method = "UpdateForSavePolicy" THEN ClosePayload ELSE
  [ raw |-> "json", keys |-> ks,
    val |-> [ method |-> m.method, id |-> m.id,
              sec |-> IF "Sec" \in ks THEN m.sec ELSE "",
              ptype |-> IF "Ptype" \in ks THEN m.ptype ELSE "",
              old_rule |-> IF "OldRule" \in ks THEN m.old_rule ELSE <<>>,
              old_rules |-> IF "OldRules" \in ks THEN m.old_rules ELSE <<>>,
              new_rule |-> IF "NewRule" \in ks THEN m.new_rule ELSE <<>>,
              new_rules |-> IF "NewRules" \in ks THEN m.new_rules ELSE <<>>,
              field_index |-> m.field_index,
              field_values |-> IF "FieldValues" \in ks THEN m.field_values ELSE <<>> ] ]

\* Message::to_json (serde_json::to_string)
to_json(m) ==
  LET ks == WireKeys(m) IN
  [ raw |-> "json", keys |-> ks,
    val |-> [ method |-> m.method, id |-> m.id,
              sec |-> IF "Sec" \in ks THEN m.sec ELSE "",
              ptype |-> IF "Ptype" \in ks THEN m.ptype ELSE "",
              old_rule |-> IF "OldRule" \in ks THEN m.old_rule ELSE <<>>,
              old_rules |-> IF "OldRules" \in ks THEN m.old_rules ELSE <<>>,
              new_rule |-> IF "NewRule" \in ks THEN m.new_rule ELSE <<>>,
              new_rules |-> IF "NewRules" \in ks THEN m.new_rules ELSE <<>>,
              field_index |-> m.field_index,
              field_values |-> IF "FieldValues" \in ks THEN m.field_values ELSE <<>> ] ]

\* Result<Message>: Ok(msg) or Err(WatcherError::<err>)
Ok(m) == [ok |-> TRUE, msg |-> m, err |-> ""]
Err(e) == [ok |-> FALSE, msg |-> Blank, err |-> e]

\* a decoder whose optional fields carry no #[serde(default)]: every key is
\* required
from_json_no_default(p) ==
  IF p.raw # "json" \/ p.val.method \notin UpdateType
     \/ ~({"Method", "ID", "Sec", "Ptype", "OldRule", "OldRules", "NewRule",
           "NewRules", "FieldIndex", "FieldValues"} \subseteq p.keys)
  THEN Err("Serialization")
  ELSE Ok(p.val)

\* a decoder that unwraps serde's result instead of returning it
from_json_unwrap(p) ==
  IF p.raw # "json" \/ ~({"Method", "ID"} \subseteq p.keys)
     \/ p.val.method \notin UpdateType
  THEN Err("panic")
  ELSE Ok(p.val)

\* Message::from_json (serde_json::from_str): Method and ID are required,
\* Method must name a variant, every other field has #[serde(default)].
from_json(p) ==
  IF p.raw # "json" \/ ~({"Method", "ID"} \subseteq p.keys)
     \/ p.val.method \notin UpdateType
  THEN Err("Serialization")
  ELSE Ok([ method |-> p.val.method, id |-> p.val.id,
                   sec |-> IF "Sec" \in p.keys THEN p.val.sec ELSE "",
                   ptype |-> IF "Ptype" \in p.keys THEN p.val.ptype ELSE "",
                   old_rule |-> IF "OldRule" \in p.keys THEN p.val.old_rule ELSE <<>>,
                   old_rules |-> IF "OldRules" \in p.keys THEN p.val.old_rules ELSE <<>>,
                   new_rule |-> IF "NewRule" \in p.keys THEN p.val.new_rule ELSE <<>>,
                   new_rules |-> IF "NewRules" \in p.keys THEN p.val.new_rules ELSE <<>>,
                   field_index |-> IF "FieldIndex" \in p.keys THEN p.val.field_index ELSE 0,
                   field_values |-> IF "FieldValues" \in p.keys THEN p.val.field_values ELSE <<>> ])

\* Message::marshal_binary (serde_json::to_vec) and Message::unmarshal_binary
\* (serde_json::from_slice): the same document as bytes.
marshal_binary(m) == to_json(m)
unmarshal_binary(data) == from_json(data)

(***************************************************************************)
(* The nine update operations of impl Watcher for RedisWatcher: the        *)
(* Message each one builds from its arguments.                             *)
(***************************************************************************)
update(id) == MessageNew("Update", id)

update_for_add_policy(id, sec, ptype, params) ==
  [MessageNew("UpdateForAddPolicy", id) EXCEPT
     !.sec = sec, !.ptype = ptype, !.new_rule = params]

update_for_remove_policy(id, sec, ptype, params) ==
  [MessageNew("UpdateForRemovePolicy", id) EXCEPT
     !.sec = sec, !.ptype = ptype, !.new_rule = params]

update_for_remove_filtered_policy(id, sec, ptype, field_index, field_values) ==
  [MessageNew("UpdateForRemoveFilteredPolicy", id) EXCEPT
     !.sec = sec, !.ptype = ptype,
     !.field_index = field_index, !.field_values = field_values]

\* update_for_save_policy building its Message with an empty id
update_for_save_policy_anonymous(id) == MessageNew("UpdateForSavePolicy", "")

update_for_save_policy(id) == MessageNew("UpdateForSavePolicy", id)

update_for_add_policies(id, sec, ptype, rules) ==
  [MessageNew("UpdateForAddPolicies", id) EXCEPT
     !.sec = sec, !.ptype = ptype, !.new_rules = rules]

update_for_remove_policies(id, sec, ptype, rules) ==
  [MessageNew("UpdateForRemovePolicies", id) EXCEPT
     !.sec = sec, !.ptype = ptype, !.new_rules = rules]

\* update_for_update_policy with the two rules exchanged
update_for_update_policy_swapped(id, sec, ptype, old_rule, new_rule) ==
  [MessageNew("UpdateForUpdatePolicy", id) EXCEPT
     !.sec = sec, !.ptype = ptype, !.old_rule = new_rule, !.new_rule = old_rule]

update_for_update_policy(id, sec, ptype, old_rule, new_rule) ==
  [MessageNew("UpdateForUpdatePolicy", id) EXCEPT
     !.sec = sec, !.ptype = ptype, !.old_rule = old_rule, !.new_rule = new_rule]

update_for_update_policies(id, sec, ptype, old_rules, new_rules) ==
  [MessageNew("UpdateForUpdatePolicies", id) EXCEPT
     !.sec = sec, !.ptype = ptype, !.old_rules = old_rules, !.new_rules = new_rules]

UpdateOps ==
  { "update", "update_for_add_policy", "update_for_remove_policy",
    "update_for_remove_filtered_policy", "update_for_save_policy",
    "update_for_add_policies", "update_for_remove_policies",
    "update_for_update_policy", "update_for_update_policies" }

\* The arguments the update calls of a run are drawn from.
SecArgs == {"p"}
PtypeArgs == {"p"}
RuleArgs == {<<"alice", "data1", "read">>}
OldRuleArgs == {<<"bob", "data2", "write">>}
FieldIndexArgs == {1}
FieldValuesArgs == {<<"data1">>}

\* One call of an update operation: the operation and its arguments (an
\* operation reads only the arguments it has).
UpdateCalls ==
  [ op : UpdateOps, sec : SecArgs, ptype : PtypeArgs,
    rule : RuleArgs, old_rule : OldRuleArgs,
    field_index : FieldIndexArgs, field_values : FieldValuesArgs ]

\* The Message the call builds for the instance with local_id `id`.
CallMessage(c, id) ==
  CASE c.op = "update" -> update(id)
    [] c.op = "update_for_add_policy" ->
         update_for_add_policy(id, c.sec, c.ptype, c.rule)
    [] c.op = "update_for_remove_policy" ->
         update_for_remove_policy(id, c.sec, c.ptype, c.rule)
    [] c.op = "update_for_remove_filtered_policy" ->
         update_for_remove_filtered_policy(id, c.sec, c.ptype,
                                           c.field_index, c.field_values)
    [] c.op = "update_for_save_policy" -> update_for_save_policy(id)
    [] c.op = "update_for_add_policies" ->
         update_for_add_policies(id, c.sec, c.ptype, <<c.rule>>)
    [] c.op = "update_for_remove_policies" ->
         update_for_remove_policies(id, c.sec, c.ptype, <<c.rule>>)
    [] c.op = "update_for_update_policy" ->
         update_for_update_policy(id, c.sec, c.ptype, c.old_rule, c.rule)
    [] OTHER ->
         update_for_update_policies(id, c.sec, c.ptype, <<c.old_rule>>, <<c.rule>>)

\* What other clients of the channel may publish: a text that is no JSON, and
\* well-formed messages under any id, written with the required keys only.
ExternalPayloads ==
  {TextPayload("garbage")}
    \cup {[raw |-> "json", keys |-> {"Method", "ID"}, val |-> MessageNew("Update", id)]
            : id \in Ids}

(***************************************************************************)
(* State.                                                                  *)
(***************************************************************************)
VARIABLES
  mode,                 \* "standalone" (RedisWatcher::new) or "cluster" (new_with_cluster)
  ignore_self,          \* options.ignore_self of each instance
  is_closed,            \* RedisWatcher.is_closed
  callback,             \* RedisWatcher.callback: 0 is None, h > 0 the h-th handler registered
  subscription_handle,  \* RedisWatcher.subscription_handle: 0 is None, else the task it names
  api,                  \* where the instance's close() call stands ("idle": no call in progress)
  task,                 \* the subscription tasks tokio::spawn started, per instance
  subscribed,           \* the connections subscribed to the channel, per instance
  inbox,                \* the payloads each subscribed connection holds, not yet read
  rx_holder,            \* cluster: the task holding the push_receiver lock (0: free)
  channel_log,          \* history: who published the n-th payload on the channel (0: another client)
  delivered,            \* history: every callback invocation, per instance, in order
  skipped,              \* history: the payloads handled without an invocation, per instance
  last,                 \* history: the last call of the public API that returned
  close_called,         \* history: close() has been called, per instance
  close_returned,       \* history: a close() call has returned, per instance
  failures,             \* history: an update call returned a connection error, per instance
  calls,                \* history: calls of the public API and external publishes made
  urls,                 \* the node addresses each instance was constructed with
  sub_node,             \* cluster: the node the instance's connection is subscribed at (0: none)
  registered_at,        \* history: how many payloads the channel had carried when the current handler was stored
  codec,                \* the Message functions: the value encoded or decoded last, and the result
  subscribe_attempts,   \* history: the connect/subscribe attempts each task has made
  enforcer              \* default_update_callback: the tasks it spawned and the enforcer calls they made

vars ==
  << mode, ignore_self, is_closed, callback, subscription_handle, api, task,
     subscribed, inbox, rx_holder, channel_log, delivered, skipped, last, close_called,
     close_returned, failures, calls,
     urls, sub_node, registered_at, codec, subscribe_attempts, enforcer >>

Modes == {"standalone", "cluster"}

\* Connection 0 of an instance is the cluster connection new_with_cluster keeps
\* (its pushes go to push_receiver); connection k > 0 is the pubsub connection
\* standalone task k opens.
Conns == 0..MaxTasks
Stream(k) == IF mode = "cluster" THEN 0 ELSE k

NoEntry == [seq |-> 0, payload |-> TextPayload("")]
Unborn == [pc |-> "unborn", cur |-> NoEntry, aborted |-> FALSE]
\* A returned call (op "update" stands for any of the nine update operations):
\* its result, whether close() had been called before it, whether
\* the transport worked during it, the publish attempts it made and the payloads
\* it put on the channel.
Returned(w, op, res, after_close, up, attempts, out) ==
  [ w |-> w, op |-> op, res |-> res, after_close |-> after_close, up |-> up,
    attempts |-> attempts, out |-> out ]
NoCall == Returned(0, "none", "none", FALSE, TRUE, 0, <<>>)

\* A task that is suspended at an await on the transport or on a lock.
Suspended(pc) == pc \in {"subscribing", "lockwait", "waiting"}
\* A task that has ended: its loop returned Ok ("done") or Err ("failed"), or
\* it was cancelled ("aborted").
Ended(pc) == pc \in {"done", "failed", "aborted"}
Live(pc) == pc \in {"subscribing", "lockwait", "waiting", "process"}

\* A use of the Message functions: the Message given to to_json or
\* marshal_binary ("from" names the encoder) or the text given to a decoder
\* (from = "input"), the encoded text, and the decoder's result once applied.
Codec(from, msg, text, decoded, res) ==
  [from |-> from, msg |-> msg, text |-> text, decoded |-> decoded, res |-> res]
NoResult == [ok |-> FALSE, msg |-> Blank, err |-> ""]
NoCodec == Codec("none", Blank, TextPayload(""), FALSE, NoResult)

\* The enforcer a default_update_callback handler was made for: the tasks the
\* handler spawned, in spawn order, those that have run, and the calls made on
\* the enforcer, in order.
NoEnforcer == [spawned |-> <<>>, ran |-> {}, applied |-> <<>>]

\* A watcher as new and new_with_cluster return it, and the histories empty.
Fresh ==
  /\ is_closed = [w \in Inst |-> FALSE]
  /\ callback = [w \in Inst |-> 0]
  /\ subscription_handle = [w \in Inst |-> 0]
  /\ api = [w \in Inst |-> "idle"]
  /\ task = [w \in Inst |-> [k \in TaskIds |-> Unborn]]
  /\ subscribed = [w \in Inst |-> [k \in Conns |-> FALSE]]
  /\ inbox = [w \in Inst |-> [k \in Conns |-> <<>>]]
  /\ rx_holder = [w \in Inst |-> 0]
  /\ channel_log = <<>>
  /\ delivered = [w \in Inst |-> <<>>]
  /\ skipped = [w \in Inst |-> {}]
  /\ last = NoCall
  /\ close_called = [w \in Inst |-> FALSE]
  /\ close_returned = [w \in Inst |-> FALSE]
  /\ failures = [w \in Inst |-> FALSE]
  /\ calls = 0
  /\ registered_at = [w \in Inst |-> 0]
  /\ codec = NoCodec
  /\ sub_node = [w \in Inst |-> 0]
  /\ subscribe_attempts = [w \in Inst |-> [k \in TaskIds |-> 0]]
  /\ enforcer = NoEnforcer

\* Both instances are constructed with the same single address.
Init ==
  /\ mode \in Modes
  /\ ignore_self \in [Inst -> BOOLEAN]
  /\ urls = [w \in Inst |-> {1}]
  /\ Fresh

(***************************************************************************)
(* The channel: PUBLISH hands the payload to every subscribed connection.  *)
(***************************************************************************)
\* a channel that hands the payload to every connection, subscribed or not yet
FanoutBuffered(inb, sub, entry) ==
  [w \in Inst |-> [k \in Conns |-> Append(inb[w][k], entry)]]

Fanout(inb, sub, entry) ==
  [w \in Inst |-> [k \in Conns |->
     IF sub[w][k] THEN Append(inb[w][k], entry) ELSE inb[w][k]]]

\* a client that routes a PUBLISH to any node of the cluster, whatever addresses
\* it was built with
PublishNodesAny(by) == Nodes

\* The nodes a PUBLISH of `by` may be routed to: one of the addresses the
\* instance's client was built with (another client: any node in use).
PublishNodes(by) == IF by = 0 THEN UNION {urls[w] : w \in Inst} ELSE urls[by]
\* The connections a payload published at node nd reaches: a node hands it to
\* the connections subscribed at that node and to no other node.
Reach(nd) ==
  [w \in Inst |-> [k \in Conns |->
     subscribed[w][k] /\ (k # 0 \/ sub_node[w] = nd)]]

\* The payloads `out` (none or one) published by `by` (0: another client).
Publish(out, by) ==
  IF out = <<>>
  THEN UNCHANGED <<inbox, channel_log>>
  ELSE /\ channel_log' = Append(channel_log, by)
       /\ \E nd \in PublishNodes(by) :
            inbox' = Fanout(inbox, Reach(nd),
                            [seq |-> Len(channel_log) + 1, payload |-> out[1]])

(***************************************************************************)
(* The facade: publish_message and the update operations.                  *)
(***************************************************************************)
\* publish_message without its check of the closed flag
publish_message_unchecked(closed, message, up) ==
  IF up
  THEN [res |-> "Ok", attempts |-> 1, out |-> <<to_json(message)>>]
  ELSE [res |-> "RedisConnection", attempts |-> 1, out |-> <<>>]

\* publish_message retrying a failed publish, three attempts in all
publish_message_retrying(closed, message, up) ==
  IF closed
  THEN [res |-> "AlreadyClosed", attempts |-> 0, out |-> <<>>]
  ELSE IF up
  THEN [res |-> "Ok", attempts |-> 1, out |-> <<to_json(message)>>]
  ELSE [res |-> "RedisConnection", attempts |-> 3, out |-> <<>>]

\* publish_message handing the message to a queue: the caller sees Ok whatever
\* the transport does
publish_message_queued(closed, message, up) ==
  IF closed
  THEN [res |-> "AlreadyClosed", attempts |-> 0, out |-> <<>>]
  ELSE IF up
  THEN [res |-> "Ok", attempts |-> 1, out |-> <<to_json(message)>>]
  ELSE [res |-> "Ok", attempts |-> 1, out |-> <<>>]

\* RedisWatcher::publish_message for an instance whose flag reads `closed`,
\* with a transport that works (`up`) or fails: the result, the publish
\* attempts made and the payloads put on the channel.  (Both constructors set
\* a publish client, so the Configuration branch is never taken.)
publish_message(closed, message, up) ==
  IF closed
  THEN [res |-> "AlreadyClosed", attempts |-> 0, out |-> <<>>]
  ELSE IF up
  THEN [res |-> "Ok", attempts |-> 1, out |-> <<to_json(message)>>]
  ELSE [res |-> "RedisConnection", attempts |-> 1, out |-> <<>>]

\* a publish failure that closes the watcher
closed_after_failure(w, res) ==
  IF res = "RedisConnection" THEN [is_closed EXCEPT ![w] = TRUE] ELSE is_closed

\* publish_message writes no field of the watcher, whatever its result: the
\* closed flag after a call that returned `res`.
closed_after_publish(w, res) == is_closed

\* One call of one of the update operations, drawn from `cs`, while fewer than
\* `n` calls have been made.
\* an update operation that refuses to publish while no callback is registered
UpdateWithCallbackOnly(w, cs, n) ==
  /\ api[w] = "idle"
  /\ calls < n
  /\ \E c \in cs, up \in BOOLEAN :
       LET p == publish_message(is_closed[w], CallMessage(c, LocalId(w)), up)
           r == IF callback[w] = 0
                THEN [res |-> "CallbackNotSet", attempts |-> 0, out |-> <<>>]
                ELSE p
       IN
       /\ Publish(r.out, w)
       /\ is_closed' = closed_after_publish(w, r.res)
       /\ last' = Returned(w, "update", r.res, close_called[w], up, r.attempts, r.out)
       /\ failures' = [failures EXCEPT ![w] = @ \/ r.res = "RedisConnection"]
  /\ calls' = calls + 1
  /\ UNCHANGED << codec, registered_at, urls, sub_node, subscribe_attempts, enforcer, mode, ignore_self, callback, subscription_handle, api,
                  task, subscribed, rx_holder, delivered, skipped, close_called,
                  close_returned >>

\* an update operation that drops the stored subscription handle
UpdateWithHandleDropped(w, cs, n) ==
  /\ api[w] = "idle"
  /\ calls < n
  /\ \E c \in cs, up \in BOOLEAN :
       LET r == publish_message(is_closed[w], CallMessage(c, LocalId(w)), up) IN
       /\ Publish(r.out, w)
       /\ is_closed' = closed_after_publish(w, r.res)
       /\ last' = Returned(w, "update", r.res, close_called[w], up, r.attempts, r.out)
       /\ failures' = [failures EXCEPT ![w] = @ \/ r.res = "RedisConnection"]
  /\ calls' = calls + 1
  /\ subscription_handle' = [subscription_handle EXCEPT ![w] = 0]
  /\ UNCHANGED << codec, registered_at, urls, sub_node, subscribe_attempts, enforcer, mode, ignore_self, callback, api,
                  task, subscribed, rx_holder, delivered, skipped, close_called,
                  close_returned >>

UpdateWith(w, cs, n) ==
  /\ api[w] = "idle"
  /\ calls < n
  /\ \E c \in cs, up \in BOOLEAN :
       LET r == publish_message(is_closed[w], CallMessage(c, LocalId(w)), up) IN
       /\ Publish(r.out, w)
       /\ is_closed' = closed_after_publish(w, r.res)
       /\ last' = Returned(w, "update", r.res, close_called[w], up, r.attempts, r.out)
       /\ failures' = [failures EXCEPT ![w] = @ \/ r.res = "RedisConnection"]
  /\ calls' = calls + 1
  /\ UNCHANGED << codec, registered_at, urls, sub_node, subscribe_attempts, enforcer, mode, ignore_self, callback, subscription_handle, api,
                  task, subscribed, rx_holder, delivered, skipped, close_called,
                  close_returned >>

\* One call of any of the nine update operations.
Update(w) == UpdateWith(w, UpdateCalls, MaxCalls)

\* Another client of the server publishes on the channel.
ExternalPublish ==
  /\ calls < MaxCalls
  /\ \E p \in ExternalPayloads : Publish(<<p>>, 0)
  /\ calls' = calls + 1
  /\ UNCHANGED << codec, registered_at, urls, sub_node, subscribe_attempts, enforcer, mode, ignore_self, is_closed, callback, subscription_handle, api,
                  task, subscribed, rx_holder, delivered, skipped, last, close_called,
                  close_returned, failures >>

(***************************************************************************)
(* start_subscription and set_update_callback.                             *)
(***************************************************************************)
FreeTasks(w) == {k \in TaskIds : task[w][k].pc = "unborn"}
NextTask(w) == CHOOSE k \in FreeTasks(w) : \A j \in FreeTasks(w) : k <= j

\* start_subscription without its check of the closed flag
start_subscription_unchecked(w, res) ==
  /\ res = "Ok"
  /\ IF FreeTasks(w) = {}
     THEN UNCHANGED <<task, subscription_handle>>
     ELSE /\ task' = [task EXCEPT ![w][NextTask(w)].pc = "subscribing"]
          /\ subscription_handle' = [subscription_handle EXCEPT ![w] = NextTask(w)]

\* RedisWatcher::start_subscription with result `res`: AlreadyClosed when the
\* flag is set; otherwise a new task is spawned and its JoinHandle replaces the
\* one in subscription_handle (the task of a replaced handle keeps running).
start_subscription(w, res) ==
  IF is_closed[w]
  THEN /\ res = "AlreadyClosed"
       /\ UNCHANGED <<task, subscription_handle>>
  ELSE /\ res = "Ok"
       /\ task' = [task EXCEPT ![w][NextTask(w)].pc = "subscribing"]
       /\ subscription_handle' = [subscription_handle EXCEPT ![w] = NextTask(w)]

StartSubscription(w, n) ==
  /\ api[w] = "idle"
  /\ calls < n
  /\ is_closed[w] \/ FreeTasks(w) # {}
  /\ \E res \in {"Ok", "AlreadyClosed"} :
       /\ start_subscription(w, res)
       /\ last' = Returned(w, "start_subscription", res, close_called[w], TRUE, 0, <<>>)
  /\ calls' = calls + 1
  /\ UNCHANGED << codec, registered_at, urls, sub_node, subscribe_attempts, enforcer, mode, ignore_self, is_closed, callback, api, subscribed, inbox,
                  rx_holder, channel_log, delivered, skipped, close_called, close_returned,
                  failures >>

\* Watcher::set_update_callback: the handler is stored, then the result is
\* that of start_subscription.
set_update_callback(w, res) ==
  /\ callback' = [callback EXCEPT ![w] = @ + 1]
  /\ registered_at' = [registered_at EXCEPT ![w] = Len(channel_log)]
  /\ start_subscription(w, res)

SetUpdateCallback(w, n) ==
  /\ api[w] = "idle"
  /\ calls < n
  /\ is_closed[w] \/ FreeTasks(w) # {}
  /\ \E res \in {"Ok", "AlreadyClosed"} :
       /\ set_update_callback(w, res)
       /\ last' = Returned(w, "set_update_callback", res, close_called[w], TRUE, 0, <<>>)
  /\ calls' = calls + 1
  /\ UNCHANGED << codec, urls, sub_node, subscribe_attempts, enforcer, mode, ignore_self, is_closed, api, subscribed, inbox, rx_holder,
                  channel_log, delivered, skipped, close_called, close_returned, failures >>

(***************************************************************************)
(* The end of a subscription task.  A standalone task owns its pubsub      *)
(* connection, which is dropped with it; a cluster task holds the          *)
(* push_receiver lock, which is released, while the cluster connection and *)
(* its subscription stay with the watcher.                                 *)
(***************************************************************************)
DropConn(sub, w, k) ==
  IF mode = "standalone" THEN [sub EXCEPT ![w][k] = FALSE] ELSE sub
DropInbox(inb, w, k) ==
  IF mode = "standalone" THEN [inb EXCEPT ![w][k] = <<>>] ELSE inb
Release(h, w, k) == IF h[w] = k THEN [h EXCEPT ![w] = 0] ELSE h

(***************************************************************************)
(* Watcher::close, at its awaits: the flag, the "Close" publish, the abort *)
(* of the task subscription_handle names.                                  *)
(***************************************************************************)
\* close() writing the flag last, after the abort
CloseFlagLast(w, step) ==
  IF step = "abort" THEN [is_closed EXCEPT ![w] = TRUE] ELSE is_closed

\* close() clearing the flag again once the task is aborted
CloseFlagCleared(w, step) ==
  IF step = "begin" THEN [is_closed EXCEPT ![w] = TRUE]
  ELSE IF step = "abort" THEN [is_closed EXCEPT ![w] = FALSE]
  ELSE is_closed

\* The closed flag after step `step` of close(): it is written first.
CloseFlag(w, step) ==
  IF step = "begin" THEN [is_closed EXCEPT ![w] = TRUE] ELSE is_closed

CloseBeginWithin(w, n) ==
  /\ api[w] = "idle"
  /\ calls < n
  /\ is_closed' = CloseFlag(w, "begin")
  /\ api' = [api EXCEPT ![w] = "close_publish"]
  /\ close_called' = [close_called EXCEPT ![w] = TRUE]
  /\ calls' = calls + 1
  /\ UNCHANGED << codec, registered_at, urls, sub_node, subscribe_attempts, enforcer, mode, ignore_self, callback, subscription_handle, task, subscribed,
                  inbox, rx_holder, channel_log, delivered, skipped, last, close_returned,
                  failures >>

CloseBegin(w) == CloseBeginWithin(w, MaxCalls)

\* The connection and the publish of "Close": an error of either returns from
\* close() at once (the ? operator), before the abort.
ClosePublish(w) ==
  /\ api[w] = "close_publish"
  /\ is_closed' = CloseFlag(w, "publish")
  /\ \E up \in BOOLEAN :
       IF up
       THEN /\ Publish(<<ClosePayload>>, w)
            /\ api' = [api EXCEPT ![w] = "close_abort"]
            /\ UNCHANGED <<last, close_returned>>
       ELSE /\ UNCHANGED <<inbox, channel_log>>
            /\ api' = [api EXCEPT ![w] = "idle"]
            /\ last' = Returned(w, "close", "RedisConnection", close_returned[w], FALSE,
                                 1, <<>>)
            /\ close_returned' = [close_returned EXCEPT ![w] = TRUE]
  /\ UNCHANGED << codec, registered_at, urls, sub_node, subscribe_attempts, enforcer, mode, ignore_self, callback, subscription_handle, task, subscribed,
                  rx_holder, delivered, skipped, close_called, failures, calls >>

\* JoinHandle::abort on task k: a task suspended at an await is cancelled
\* there; a task that is being polled is cancelled at its next await that
\* yields, which is callback.read() (now) or the next stream.next().
Abort(w, k, now) ==
  IF k = 0 \/ Ended(task[w][k].pc) THEN task
  ELSE IF Suspended(task[w][k].pc) \/ now
  THEN [task EXCEPT ![w][k] = [pc |-> "aborted", cur |-> NoEntry, aborted |-> TRUE]]
  ELSE [task EXCEPT ![w][k].aborted = TRUE]

CloseAbort(w) ==
  /\ api[w] = "close_abort"
  /\ is_closed' = CloseFlag(w, "abort")
  /\ \E now \in BOOLEAN :
       LET k == subscription_handle[w]
           t == Abort(w, k, now)
           gone == k # 0 /\ t[w][k].pc = "aborted" /\ task[w][k].pc # "aborted"
       IN /\ task' = t
          /\ subscribed' = IF gone THEN DropConn(subscribed, w, k) ELSE subscribed
          /\ inbox' = IF gone THEN DropInbox(inbox, w, k) ELSE inbox
          /\ rx_holder' = IF gone THEN Release(rx_holder, w, k) ELSE rx_holder
  /\ subscription_handle' = [subscription_handle EXCEPT ![w] = 0]
  /\ api' = [api EXCEPT ![w] = "idle"]
  /\ last' = Returned(w, "close", "Ok", close_returned[w], TRUE, 1, <<ClosePayload>>)
  /\ close_returned' = [close_returned EXCEPT ![w] = TRUE]
  /\ UNCHANGED << codec, registered_at, urls, sub_node, subscribe_attempts, enforcer, mode, ignore_self, callback, channel_log, delivered, skipped, close_called,
                  failures, calls >>

(***************************************************************************)
(* The subscription loops (standalone_subscription_loop and                *)
(* cluster_subscription_loop), at their awaits.                            *)
(***************************************************************************)
\* opening the stream again after a failure, five attempts in all
open_stream_retrying(up) == [ok |-> up, attempts |-> IF up THEN 1 ELSE 5]

\* Opening the subscribe stream with a transport that works (`up`) or fails:
\* the calls are made once and an error leaves the loop through `?`.
open_stream(up) == [ok |-> up, attempts |-> 1]

\* get_async_pubsub and subscribe (standalone), or subscribe on the cluster
\* connection and the lock of push_receiver (cluster).  An error ends the task.
TaskSubscribe(w, k) ==
  /\ task[w][k].pc = "subscribing"
  /\ \E up \in BOOLEAN :
       LET r == open_stream(up) IN
       /\ subscribe_attempts' = [subscribe_attempts EXCEPT ![w][k] = @ + r.attempts]
       /\ IF ~r.ok
          THEN /\ task' = [task EXCEPT ![w][k].pc = "failed"]
               /\ UNCHANGED <<subscribed, rx_holder, sub_node>>
          ELSE IF mode = "standalone"
          THEN /\ task' = [task EXCEPT ![w][k].pc = "waiting"]
               /\ subscribed' = [subscribed EXCEPT ![w][k] = TRUE]
               /\ UNCHANGED <<rx_holder, sub_node>>
          ELSE /\ subscribed' = [subscribed EXCEPT ![w][0] = TRUE]
               /\ \E nd \in urls[w] :
                    sub_node' = [sub_node EXCEPT ![w] = IF @ = 0 THEN nd ELSE @]
               /\ IF rx_holder[w] = 0
                  THEN /\ task' = [task EXCEPT ![w][k].pc = "waiting"]
                       /\ rx_holder' = [rx_holder EXCEPT ![w] = k]
                  ELSE /\ task' = [task EXCEPT ![w][k].pc = "lockwait"]
                       /\ UNCHANGED rx_holder
  /\ UNCHANGED << codec, registered_at, urls, enforcer, mode, ignore_self, is_closed, callback, subscription_handle, api,
                  inbox, channel_log, delivered, skipped, last, close_called, close_returned,
                  failures, calls >>

\* cluster: push_receiver.lock() is granted once the task holding it has ended.
TaskAcquire(w, k) ==
  /\ task[w][k].pc = "lockwait"
  /\ rx_holder[w] = 0
  /\ task' = [task EXCEPT ![w][k].pc = "waiting"]
  /\ rx_holder' = [rx_holder EXCEPT ![w] = k]
  /\ UNCHANGED << codec, registered_at, urls, sub_node, subscribe_attempts, enforcer, mode, ignore_self, is_closed, callback, subscription_handle, api,
                  subscribed, inbox, channel_log, delivered, skipped, last, close_called,
                  close_returned, failures, calls >>

\* stream.next() / rx.recv() yields the next payload and the loop reads the
\* closed flag: set, it breaks; clear, it goes on to handle the payload.
TaskRecv(w, k) ==
  /\ task[w][k].pc = "waiting"
  /\ inbox[w][Stream(k)] # <<>>
  /\ LET e == Head(inbox[w][Stream(k)])
         rest == [inbox EXCEPT ![w][Stream(k)] = Tail(@)]
     IN IF is_closed[w]
        THEN /\ task' = [task EXCEPT ![w][k].pc = "done"]
             /\ subscribed' = DropConn(subscribed, w, k)
             /\ inbox' = DropInbox(rest, w, k)
             /\ rx_holder' = Release(rx_holder, w, k)
        ELSE /\ task' = [task EXCEPT ![w][k] = [@ EXCEPT !.pc = "process", !.cur = e]]
             /\ inbox' = rest
             /\ UNCHANGED <<subscribed, rx_holder>>
  /\ UNCHANGED << codec, registered_at, urls, sub_node, subscribe_attempts, enforcer, mode, ignore_self, is_closed, callback, subscription_handle, api,
                  channel_log, delivered, skipped, last, close_called, close_returned, failures,
                  calls >>

\* a filter that lets every message through
is_filtered_never(ignore, id, local_id) == FALSE

\* The self filter: the message is skipped when ignore_self is set and its id
\* is the instance's local_id.
is_filtered(ignore, id, local_id) == ignore /\ id = local_id

\* a loop that ends on a payload it cannot decode
handle_fatal(w, payload) ==
  IF payload.raw = "Close" THEN "stop"
  ELSE LET d == from_json(payload) IN
       IF ~d.ok THEN "stop"
       ELSE IF is_filtered(ignore_self[w], d.msg.id, LocalId(w)) THEN "filtered"
       ELSE IF callback[w] = 0 THEN "no_callback"
       ELSE "invoke"

\* What the loop does with a payload: "stop" on the sentinel, "invoke" the
\* registered callback on a message that decodes and is not filtered; otherwise
\* the payload is skipped: "malformed" (it does not decode, which is logged),
\* "filtered", or "no_callback" (the slot is None).
handle(w, payload) ==
  IF payload.raw = "Close" THEN "stop"
  ELSE LET d == from_json(payload) IN
       IF ~d.ok THEN "malformed"
       ELSE IF is_filtered(ignore_self[w], d.msg.id, LocalId(w)) THEN "filtered"
       ELSE IF callback[w] = 0 THEN "no_callback"
       ELSE "invoke"

\* The string the callback is called with: the payload as received.
callback_arg(payload) == payload

\* an invocation of the handler that was registered before the current one
InvocationStale(w, k, e) ==
  [ seq |-> e.seq, received |-> e.payload, arg |-> callback_arg(e.payload),
    cb |-> IF callback[w] > 1 THEN callback[w] - 1 ELSE callback[w], task |-> k,
    after_close |-> close_returned[w], registered_at |-> registered_at[w] ]

\* One callback invocation: the entry task k received, the argument handed to
\* the handler cb, and whether a close() call had returned by then.
Invocation(w, k, e) ==
  [ seq |-> e.seq, received |-> e.payload, arg |-> callback_arg(e.payload),
    cb |-> callback[w], task |-> k, after_close |-> close_returned[w],
    registered_at |-> registered_at[w] ]

TaskHandle(w, k) ==
  /\ task[w][k].pc = "process"
  /\ LET e == task[w][k].cur
         h == handle(w, e.payload)
         ends == h = "stop" \/ task[w][k].aborted
     IN /\ delivered' = IF h = "invoke"
                        THEN [delivered EXCEPT ![w] = Append(@, Invocation(w, k, e))]
                        ELSE delivered
        /\ skipped' = IF h = "invoke" THEN skipped
                      ELSE [skipped EXCEPT ![w] = @ \cup
                              {[seq |-> e.seq, payload |-> e.payload, task |-> k, why |-> h]}]
        /\ task' = [task EXCEPT ![w][k] =
             [ pc |-> IF h = "stop" THEN "done"
                      ELSE IF @.aborted THEN "aborted" ELSE "waiting",
               cur |-> NoEntry, aborted |-> @.aborted ]]
        /\ subscribed' = IF ends THEN DropConn(subscribed, w, k) ELSE subscribed
        /\ inbox' = IF ends THEN DropInbox(inbox, w, k) ELSE inbox
        /\ rx_holder' = IF ends THEN Release(rx_holder, w, k) ELSE rx_holder
  /\ UNCHANGED << codec, registered_at, urls, sub_node, subscribe_attempts, enforcer, mode, ignore_self, is_closed, callback, subscription_handle, api,
                  channel_log, last, close_called, close_returned, failures, calls >>

Next ==
  \/ \E w \in Inst : Update(w)
  \/ ExternalPublish
  \/ \E w \in Inst : StartSubscription(w, MaxCalls)
  \/ \E w \in Inst : SetUpdateCallback(w, MaxCalls)
  \/ \E w \in Inst : CloseBegin(w)
  \/ \E w \in Inst : ClosePublish(w)
  \/ \E w \in Inst : CloseAbort(w)
  \/ \E w \in Inst, k \in TaskIds : TaskSubscribe(w, k)
  \/ \E w \in Inst, k \in TaskIds : TaskAcquire(w, k)
  \/ \E w \in Inst, k \in TaskIds : TaskRecv(w, k)
  \/ \E w \in Inst, k \in TaskIds : TaskHandle(w, k)

Spec == Init /\ [][Next]_vars

(***************************************************************************)
(* Properties.                                                             *)
(***************************************************************************)
Decoded(p) == from_json(p)
\* The payload decodes to a Message with id `id`.
HasId(p, id) == Decoded(p).ok /\ Decoded(p).msg.id = id

\* C1: an instance configured with ignore_self never has its callback invoked
\* with a payload that decodes to a Message whose id is its own local_id,
\* whoever published the payload and in either mode.
C1_SelfFiltered ==
  \A w \in Inst : ignore_self[w] =>
    \A i \in 1..Len(delivered[w]) :
      /\ ~HasId(delivered[w][i].received, LocalId(w))
      /\ ~HasId(delivered[w][i].arg, LocalId(w))

\* An instance with ignore_self and a registered callback has handled a payload
\* carrying its own id, and skipped it as filtered.
C1_Witness ==
  \E w \in Inst : ignore_self[w] /\ callback[w] # 0 /\
    \E x \in skipped[w] : x.why = "filtered" /\ HasId(x.payload, LocalId(w))

\* C4: an update call made on an instance after close() was called on it
\* returns AlreadyClosed and puts nothing on the channel.
C4_UpdateAfterClose ==
  [][ \A w \in Inst :
        (close_called[w] /\ calls' = calls + 1 /\ Update(w))
          => (last'.op = "update" /\ last'.w = w /\ last'.res = "AlreadyClosed" /\ last'.out = <<>>
              /\ channel_log' = channel_log /\ inbox' = inbox) ]_vars

\* An update call was made after close(), with a working transport, and was
\* refused.
C4_Witness ==
  last.op = "update" /\ last.after_close /\ last.up /\ last.res = "AlreadyClosed"

\* C6: a set_update_callback call made on an instance after close() was called
\* on it returns AlreadyClosed.
C6_CallbackAfterClose ==
  (last.op = "set_update_callback" /\ last.after_close) => last.res = "AlreadyClosed"

\* A set_update_callback call made after close() was refused.
C6_Witness ==
  last.op = "set_update_callback" /\ last.after_close /\ last.res = "AlreadyClosed"

\* C10: the closed flag is true from the first step of every close() call on:
\* while the call publishes and aborts, after it returned Ok, after it returned
\* a connection error, and after a second call.
C10_CloseSetsFlag ==
  \A w \in Inst :
    /\ api[w] # "idle" => is_closed[w]
    /\ close_called[w] => is_closed[w]
    /\ (last.op = "close" /\ last.w = w) => is_closed[w]

\* A second close() call on an instance returned a connection error.
C10_Witness ==
  /\ last.op = "close" /\ last.after_close /\ last.res = "RedisConnection"
  /\ is_closed[last.w] /\ api[last.w] = "idle"

(***************************************************************************)
(* The same program under fair scheduling: a spawned task is polled when   *)
(* it can make progress and a close() call in progress runs to its return. *)
(***************************************************************************)
FairSpec ==
  /\ Spec
  /\ \A w \in Inst : WF_vars(ClosePublish(w)) /\ WF_vars(CloseAbort(w))
  /\ \A w \in Inst, k \in TaskIds :
       /\ WF_vars(TaskSubscribe(w, k))
       /\ WF_vars(TaskAcquire(w, k))
       /\ WF_vars(TaskRecv(w, k))
       /\ WF_vars(TaskHandle(w, k))

\* The last call that returned is a successful update of instance p, its
\* message is entry n of the channel, and instance w is open with a callback
\* registered.
Arrived(w, p, n) ==
  /\ callback[w] # 0 /\ ~is_closed[w]
  /\ last.op = "update" /\ last.res = "Ok" /\ last.w = p /\ api[p] = "idle"
  /\ Len(channel_log) = n /\ channel_log[n] = p
\* Entry n of the channel was passed to the callback of w as it was received.
Passed(w, n) ==
  \E i \in 1..Len(delivered[w]) :
    delivered[w][i].seq = n /\ delivered[w][i].arg = delivered[w][i].received
\* A subscription task of w was ended by a transport error.
Broken(w) == \E k \in TaskIds : task[w][k].pc = "failed"

\* C2: on an open instance with ignore_self and a registered callback, a
\* message a peer published is eventually passed to the callback, unchanged
\* (unless the instance is closed or its subscription failed on the transport).
C2_ForeignDelivered ==
  \A w \in Inst : \A p \in Inst \ {w}, n \in 1..MaxCalls :
    (ignore_self[w] /\ Arrived(w, p, n)) ~> (Passed(w, n) \/ is_closed[w] \/ Broken(w))

\* C3: on an open instance without ignore_self and with a registered callback,
\* every message published by an update, the instance's own included, is
\* eventually passed to the callback (unless the instance is closed or its
\* subscription failed on the transport).
C3_AllDelivered ==
  \A w \in Inst, p \in Inst, n \in 1..MaxCalls :
    (~ignore_self[w] /\ Arrived(w, p, n)) ~> (Passed(w, n) \/ is_closed[w] \/ Broken(w))

\* C5: no callback invocation of an instance happens after a close() call on
\* that instance has returned.
C5_NoCallbackAfterClose ==
  \A w \in Inst : \A i \in 1..Len(delivered[w]) : ~delivered[w][i].after_close

C8_PublishPathStaysOpen ==
  [][ \A w \in Inst :
        /\ (~close_called'[w]) => (~is_closed'[w])
        /\ ( /\ ~close_called[w] /\ ~is_closed[w]
             /\ calls' = calls + 1 /\ last'.op = "update" /\ last'.w = w /\ last'.up
             /\ Update(w) )
             => (last'.res = "Ok" /\ Len(last'.out) = 1
                 /\ channel_log' = Append(channel_log, w)) ]_vars

\* An instance whose publish failed before has published an update.
C8_Witness ==
  \E w \in Inst :
    /\ failures[w] /\ ~is_closed[w]
    /\ last.op = "update" /\ last.w = w /\ last.res = "Ok"
    /\ channel_log # <<>> /\ channel_log[Len(channel_log)] = w

(***************************************************************************)
(* Two standalone watchers on one channel: instance 1 publishes, instance  *)
(* 2 subscribes, with room for two updates after two subscription starts.  *)
(***************************************************************************)
MaxOrderCalls == 4
\* instance 1 only publishes, instance 2 only subscribes
Role == [publisher |-> 1, subscriber |-> 2]
OrderCalls == {c \in UpdateCalls : c.op \in {"update", "update_for_save_policy"}}

OrderInit ==
  /\ Init
  /\ mode = "standalone"
  /\ ignore_self = [w \in Inst |-> FALSE]

OrderNext ==
  \/ UpdateWith(Role.publisher, OrderCalls, MaxOrderCalls)
  \/ SetUpdateCallback(Role.subscriber, MaxOrderCalls)
  \/ StartSubscription(Role.subscriber, MaxOrderCalls)
  \/ \E k \in TaskIds : TaskSubscribe(Role.subscriber, k)
  \/ \E k \in TaskIds : TaskRecv(Role.subscriber, k)
  \/ \E k \in TaskIds : TaskHandle(Role.subscriber, k)

OrderSpec == OrderInit /\ [][OrderNext]_vars

\* Entry n of the channel is a message published by an update of instance p.
PublishedBy(n, p) == n \in 1..Len(channel_log) /\ channel_log[n] = p
\* The callback of w has been invoked for entry n of the channel.
Invoked(w, n) == \E i \in 1..Len(delivered[w]) : delivered[w][i].seq = n

\* C9: when the callback of a subscriber has been invoked for two messages
\* that one remote instance published one after the other, its first
\* invocation for the earlier message precedes every invocation for the later.
C9_PublishOrder ==
  \A w \in Inst : \A p \in Inst \ {w} :
    \A j \in 1..Len(delivered[w]) : \A a \in 1..Len(channel_log) :
      ( /\ a < delivered[w][j].seq
        /\ PublishedBy(a, p) /\ PublishedBy(delivered[w][j].seq, p)
        /\ Invoked(w, a) )
      => \E i \in 1..(j - 1) : delivered[w][i].seq = a

\* Task k of instance w has been spawned and has neither ended nor been
\* aborted.
Unaborted(w, k) == Live(task[w][k].pc) /\ ~task[w][k].aborted

\* C11: once a close() call on an instance has returned, with Ok or with an
\* error, no subscription task of that instance is left running without having
\* been aborted.
C11_CloseAbortsTasks ==
  \A w \in Inst : close_returned[w] => \A k \in TaskIds : ~Unaborted(w, k)

\* A step in which an update operation of instance w returns Ok.
Published(w) ==
  /\ calls' = calls + 1
  /\ last'.op = "update" /\ last'.w = w /\ last'.res = "Ok"
  /\ Update(w)
\* The entry that step puts on the channel.
PublishedEntry == [seq |-> Len(channel_log) + 1, payload |-> last'.out[1]]
\* A start_subscription or set_update_callback call on w has returned Ok and
\* close() has not been called: all the code tells a caller about readiness.
Started(w) == subscription_handle[w] # 0 /\ ~close_called[w]

Messages ==
  [ method : UpdateType, id : {LocalId(1)},
    sec : {""} \cup SecArgs, ptype : {""} \cup PtypeArgs,
    old_rule : {<<>>} \cup OldRuleArgs,
    old_rules : {<<>>} \cup {<<r>> : r \in OldRuleArgs},
    new_rule : {<<>>} \cup RuleArgs,
    new_rules : {<<>>} \cup {<<r>> : r \in RuleArgs},
    field_index : {0} \cup FieldIndexArgs,
    field_values : {<<>>} \cup FieldValuesArgs ]

Encoders == {"to_json", "marshal_binary"}

Encode ==
  /\ codec.from = "none"
  /\ \E m \in Messages, f \in Encoders :
       codec' = Codec(f, m, IF f = "to_json" THEN to_json(m) ELSE marshal_binary(m),
                      FALSE, NoResult)
  /\ UNCHANGED << subscribe_attempts, enforcer, mode, ignore_self, is_closed, callback, subscription_handle, api, task,
                  subscribed, inbox, rx_holder, channel_log, delivered, skipped, last,
                  close_called, close_returned, failures, calls, registered_at, urls,
                  sub_node >>

Decode ==
  /\ codec.from # "none" /\ ~codec.decoded
  /\ codec' = [codec EXCEPT
       !.decoded = TRUE,
       !.res = IF codec.from \in {"marshal_binary", "bytes"}
               THEN unmarshal_binary(codec.text) ELSE from_json(codec.text)]
  /\ UNCHANGED << subscribe_attempts, enforcer, mode, ignore_self, is_closed, callback, subscription_handle, api, task,
                  subscribed, inbox, rx_holder, channel_log, delivered, skipped, last,
                  close_called, close_returned, failures, calls, registered_at, urls,
                  sub_node >>

\* The functions read no state of a watcher: one watcher configuration is enough.
CodecInit ==
  /\ Init
  /\ mode = "standalone"
  /\ ignore_self = [w \in Inst |-> FALSE]

\* Texts that are no Message encoding: no JSON at all (the empty text, the
\* sentinel, bytes that are not UTF-8), JSON that is no object or holds a value
\* of the wrong type, an object without Method or without ID, and an object
\* whose Method names no variant of UpdateType.
MalformedTexts == {"", "garbage", "Close", "non-utf8", "[1,2]", "mistyped-field"}
MalformedInputs ==
  {TextPayload(t) : t \in MalformedTexts}
    \cup {[to_json(m) EXCEPT !.keys = @ \ d] :
            m \in {x \in Messages : x.method = "Update"}, d \in {{"Method"}, {"ID"}}}
    \cup {[to_json(m) EXCEPT !.val.method = "Bogus"] :
            m \in {x \in Messages : x.method = "UpdateForSavePolicy"}}

\* A text from elsewhere is handed to from_json ("text") or unmarshal_binary
\* ("bytes"): a malformed one, or a well-formed one another client wrote.
Input ==
  /\ codec.from = "none"
  /\ \E p \in MalformedInputs \cup ExternalPayloads, f \in {"text", "bytes"} :
       codec' = Codec(f, Blank, p, FALSE, NoResult)
  /\ UNCHANGED << subscribe_attempts, enforcer, mode, ignore_self, is_closed, callback, subscription_handle, api, task,
                  subscribed, inbox, rx_holder, channel_log, delivered, skipped, last,
                  close_called, close_returned, failures, calls, registered_at, urls,
                  sub_node >>

CodecNext == Encode \/ Input \/ Decode
CodecSpec == CodecInit /\ [][CodecNext]_vars

\* C13: decoding what to_json or marshal_binary wrote for a Message succeeds
\* and returns a Message equal to it in every field, for every UpdateType and
\* every combination of empty and populated optional fields.
C13_RoundTrip ==
  (codec.from \in Encoders /\ codec.decoded) =>
    (codec.res.ok /\ codec.res.msg = codec.msg)

\* A Message with some optional fields empty (so left out of the text) and
\* others populated has been encoded and decoded back.
C13_Witness ==
  /\ codec.from = "marshal_binary" /\ codec.decoded /\ codec.res.ok
  /\ codec.msg.sec = "" /\ codec.msg.new_rule # <<>> /\ codec.msg.field_index = 0
  /\ "Sec" \notin codec.text.keys /\ "NewRule" \in codec.text.keys
  /\ codec.res.msg = codec.msg

\* The state of every watcher as construction left it.
Untouched ==
  /\ is_closed = [w \in Inst |-> FALSE] /\ callback = [w \in Inst |-> 0]
  /\ subscription_handle = [w \in Inst |-> 0]
  /\ task = [w \in Inst |-> [k \in TaskIds |-> Unborn]]
  /\ delivered = [w \in Inst |-> <<>>] /\ channel_log = <<>>

\* C14: from_json and unmarshal_binary, given a text that is no Message
\* encoding, return the Serialization error as a value (no panic), and leave
\* every watcher as it was.
C14_DecodeError ==
  (codec.from \in {"text", "bytes"} /\ codec.decoded /\ codec.text \in MalformedInputs)
    => (~codec.res.ok /\ codec.res.err = "Serialization" /\ Untouched)

\* unmarshal_binary was given an object without ID and returned the error.
C14_Witness ==
  /\ codec.from = "bytes" /\ codec.decoded
  /\ codec.text.raw = "json" /\ "ID" \notin codec.text.keys /\ "Method" \in codec.text.keys
  /\ codec.res.err = "Serialization"

\* C15: a callback is invoked only for payloads published on the channel
\* after the handler was registered: a payload that arrived earlier, with no
\* handler or with the previous one, is never handed to it later.
C15_NoReplay ==
  \A w \in Inst : \A i \in 1..Len(delivered[w]) :
    delivered[w][i].seq > delivered[w][i].registered_at

(***************************************************************************)
(* Two cluster watchers on one channel, each built by new_with_cluster     *)
(* with one or more node addresses: instance 1 publishes add-policy        *)
(* updates, instance 2 registers a callback.                               *)
(***************************************************************************)
PinCalls == {c \in UpdateCalls : c.op = "update_for_add_policy"}

PinInit ==
  /\ mode = "cluster"
  /\ ignore_self = [w \in Inst |-> FALSE]
  /\ urls \in [Inst -> (SUBSET Nodes) \ {{}}]
  /\ Fresh

PinNext ==
  \/ UpdateWith(Role.publisher, PinCalls, MaxCalls)
  \/ SetUpdateCallback(Role.subscriber, MaxCalls)
  \/ \E k \in TaskIds : TaskSubscribe(Role.subscriber, k)
  \/ \E k \in TaskIds : TaskRecv(Role.subscriber, k)
  \/ \E k \in TaskIds : TaskHandle(Role.subscriber, k)

PinSpec == PinInit /\ [][PinNext]_vars

AddPolicyReceived(a, b) ==
  \E i \in 1..Len(delivered[b]) :
    LET d == from_json(delivered[b][i].arg) IN
      /\ d.ok /\ d.msg.id = LocalId(a)
      /\ d.msg.method = "UpdateForAddPolicy"
      /\ d.msg.new_rule = <<"alice", "data1", "read">>

Exists(w) == urls[w] # {}

\* construction without the test connection and PING
new_untested(up) == "Ok"

\* The result of new / new_with_cluster: the test connection and the PING are
\* awaited with `?`, before the watcher is built.
new(up) == IF up THEN "Ok" ELSE "RedisConnection"

\* The addresses a constructor call may be given.
Addresses ==
  IF mode = "standalone" THEN {{nd} : nd \in Nodes} ELSE (SUBSET Nodes) \ {{}}

New(w) ==
  /\ ~Exists(w)
  /\ calls < MaxCalls
  /\ \E addrs \in Addresses, up \in BOOLEAN :
       /\ urls' = IF new(up) = "Ok" THEN [urls EXCEPT ![w] = addrs] ELSE urls
       /\ last' = Returned(w, "new", new(up), FALSE, up, 0, <<>>)
  /\ calls' = calls + 1
  /\ UNCHANGED << codec, registered_at, sub_node, subscribe_attempts, enforcer, mode, ignore_self, is_closed, callback,
                  subscription_handle, api, task, subscribed, inbox, rx_holder, channel_log,
                  delivered, skipped, close_called, close_returned, failures >>

NewInit ==
  /\ mode \in Modes
  /\ ignore_self = [w \in Inst |-> FALSE]
  /\ urls = [w \in Inst |-> {}]
  /\ Fresh

NewNext ==
  \/ \E w \in Inst : New(w)
  \/ \E w \in Inst : Exists(w) /\ Update(w)
  \/ \E w \in Inst : Exists(w) /\ SetUpdateCallback(w, MaxCalls)
  \/ \E w \in Inst, k \in TaskIds : TaskSubscribe(w, k)
  \/ \E w \in Inst, k \in TaskIds : TaskRecv(w, k)
  \/ \E w \in Inst, k \in TaskIds : TaskHandle(w, k)

NewSpec == NewInit /\ [][NewNext]_vars

\* Nothing of instance w exists: no watcher, no subscription, no task.
Nothing(w) ==
  /\ ~Exists(w) /\ ~is_closed[w] /\ callback[w] = 0 /\ subscription_handle[w] = 0
  /\ sub_node[w] = 0
  /\ \A k \in TaskIds : task[w][k] = Unborn
  /\ \A c \in Conns : ~subscribed[w][c] /\ inbox[w][c] = <<>>

Appended(v, c) ==
  {inbox'[v][c][i] : i \in (Len(inbox[v][c]) + 1)..Len(inbox'[v][c])}

\* C18: every Message an update operation of an instance publishes carries
\* the local_id of that instance, and the id of no other instance.
C18_PublisherId ==
  [][\A w \in Inst :
       (calls' = calls + 1 /\ last'.op = "update" /\ last'.w = w /\ Update(w)) =>
         /\ \A i \in 1..Len(last'.out) :
              /\ HasId(last'.out[i], LocalId(w))
              /\ \A v \in Inst \ {w} : ~HasId(last'.out[i], LocalId(v))
         /\ \A v \in Inst, c \in Conns : \A e \in Appended(v, c) :
              /\ HasId(e.payload, LocalId(w))
              /\ channel_log'[e.seq] = w]_vars

\* An update call published a Message which a subscribed peer holds in its
\* stream, carrying the caller's id.
C18_Witness ==
  /\ last.op = "update" /\ last.res = "Ok" /\ Len(last.out) = 1
  /\ \E v \in Inst \ {last.w}, c \in Conns :
       /\ inbox[v][c] # <<>>
       /\ inbox[v][c][Len(inbox[v][c])].payload = last.out[1]
       /\ HasId(last.out[1], LocalId(last.w))

(***************************************************************************)
(* The Message each update operation builds, over arguments that differ    *)
(* from field to field, and over empty arguments.                          *)
(***************************************************************************)
BuildArgs ==
  { [ sec |-> "g", ptype |-> "g2", rule |-> <<"alice", "data1", "read">>,
      old_rule |-> <<"bob", "data2", "write">>,
      field_index |-> 1, field_values |-> <<"data1">> ],
    [ sec |-> "", ptype |-> "", rule |-> <<>>, old_rule |-> <<>>,
      field_index |-> 0, field_values |-> <<>> ] }

BuildCalls ==
  { [ op |-> o, sec |-> a.sec, ptype |-> a.ptype, rule |-> a.rule,
      old_rule |-> a.old_rule, field_index |-> a.field_index,
      field_values |-> a.field_values ] : o \in UpdateOps, a \in BuildArgs }

BuildInit ==
  /\ mode = "standalone"
  /\ ignore_self = [w \in Inst |-> FALSE]
  /\ urls = [w \in Inst |-> {1}]
  /\ Fresh

BuildNext == \E w \in Inst : UpdateWith(w, BuildCalls, MaxCalls)

BuildSpec == BuildInit /\ [][BuildNext]_vars

Fields ==
  { "sec", "ptype", "old_rule", "old_rules", "new_rule", "new_rules",
    "field_index", "field_values" }

\* The fields each operation is said to populate.
Populated(op) ==
  CASE op \in {"update", "update_for_save_policy"} -> {}
    [] op \in {"update_for_add_policy", "update_for_remove_policy"} ->
         {"sec", "ptype", "new_rule"}
    [] op = "update_for_remove_filtered_policy" ->
         {"sec", "ptype", "field_index", "field_values"}
    [] op \in {"update_for_add_policies", "update_for_remove_policies"} ->
         {"sec", "ptype", "new_rules"}
    [] op = "update_for_update_policy" -> {"sec", "ptype", "old_rule", "new_rule"}
    [] OTHER -> {"sec", "ptype", "old_rules", "new_rules"}

\* The argument of call c that belongs to field f.
Argument(c, f) ==
  CASE f = "sec" -> c.sec
    [] f = "ptype" -> c.ptype
    [] f = "old_rule" -> c.old_rule
    [] f = "old_rules" -> <<c.old_rule>>
    [] f = "new_rule" -> c.rule
    [] f = "new_rules" -> <<c.rule>>
    [] f = "field_index" -> c.field_index
    [] OTHER -> c.field_values

\* C19: the Message an update operation publishes has a type of its own, and
\* holds the operation's arguments in exactly the fields of the operation,
\* every other field at its default.
C19_BuiltMessage ==
  [][\A w \in Inst, c \in BuildCalls :
       (calls' = calls + 1 /\ last'.res = "Ok" /\ last'.w = w
          /\ UpdateWith(w, {c}, MaxCalls)) =>
         /\ Len(last'.out) = 1
         /\ Decoded(last'.out[1]).ok
         /\ LET m == Decoded(last'.out[1]).msg IN
            /\ m.method \in UpdateType
            /\ \A d \in BuildCalls :
                 d.op # c.op => CallMessage(d, LocalId(w)).method # m.method
            /\ \A f \in Populated(c.op) : m[f] = Argument(c, f)
            /\ \A f \in Fields \ Populated(c.op) : m[f] = Blank[f]]_vars

\* update_for_update_policy was called with two different non-empty rules and
\* published them, nothing in the plural fields.
C19_Witness ==
  /\ last.op = "update" /\ last.res = "Ok" /\ Len(last.out) = 1
  /\ LET m == Decoded(last.out[1]).msg IN
     /\ m.method = "UpdateForUpdatePolicy"
     /\ m.old_rule = <<"bob", "data2", "write">>
     /\ m.new_rule = <<"alice", "data1", "read">>
     /\ m.sec = "g" /\ m.ptype = "g2"
     /\ m.old_rules = <<>> /\ m.new_rules = <<>> /\ m.field_values = <<>>

(***************************************************************************)
(* Publishing without a callback.                                          *)
(***************************************************************************)
\* Instance w has no callback, and no subscription was ever started on it.
Bare(w) ==
  /\ callback[w] = 0 /\ subscription_handle[w] = 0
  /\ \A k \in TaskIds : task[w][k] = Unborn

\* C20: an update call on an open instance without callback and subscription
\* succeeds when the transport works; no operation returns CallbackNotSet; a
\* loop that finds no handler skips the message and goes on.
C20_NoCallbackNeeded ==
  [][/\ last'.res # "CallbackNotSet"
     /\ \A w \in Inst :
          (calls' = calls + 1 /\ last'.op = "update" /\ last'.w = w /\ last'.up
             /\ ~is_closed[w] /\ Bare(w) /\ Update(w)) =>
            (last'.res = "Ok" /\ Len(last'.out) = 1 /\ Bare(w)')
     /\ \A w \in Inst, k \in TaskIds :
          (task[w][k].pc = "process" /\ callback[w] = 0
             /\ handle(w, task[w][k].cur.payload) # "stop" /\ TaskHandle(w, k)) =>
            /\ delivered' = delivered
            /\ last' = last
            /\ \E e \in skipped'[w] \ skipped[w] :
                 e.seq = task[w][k].cur.seq /\ e.why # "invoke"
            /\ task'[w][k].pc = IF task[w][k].aborted THEN "aborted" ELSE "waiting"]_vars

\* An instance without callback and subscription published with success, and a
\* peer whose subscription runs without a callback skipped that message.
C20_Witness ==
  /\ last.op = "update" /\ last.res = "Ok" /\ Bare(last.w) /\ ~is_closed[last.w]
  /\ \E v \in Inst \ {last.w} :
       /\ callback[v] = 0
       /\ \E e \in skipped[v] : e.why = "no_callback" /\ e.payload = last.out[1]

(***************************************************************************)
(* Replacing the callback.                                                 *)
(***************************************************************************)
\* C21: set_update_callback on an open instance stores a new handler each
\* time it is called, and every invocation made after it returned goes to the
\* one handler the slot then holds, never to an earlier one.
C21_CallbackReplaced ==
  [][\A w \in Inst :
       /\ (calls' = calls + 1 /\ last'.op = "set_update_callback" /\ last'.w = w
             /\ ~is_closed[w] /\ SetUpdateCallback(w, MaxOrderCalls)) =>
            (last'.res = "Ok" /\ callback'[w] = callback[w] + 1)
       /\ delivered'[w] # delivered[w] =>
            /\ Len(delivered'[w]) = Len(delivered[w]) + 1
            /\ SubSeq(delivered'[w], 1, Len(delivered[w])) = delivered[w]
            /\ LET d == delivered'[w][Len(delivered'[w])] IN
               d.cb # 0 /\ d.cb = callback[w] /\ d.cb = callback'[w]]_vars

\* The first handler was invoked, then replaced, and the second handler was
\* invoked for a later message.
C21_Witness ==
  \E w \in Inst : \E i, j \in 1..Len(delivered[w]) :
    /\ i < j /\ callback[w] = 2
    /\ delivered[w][i].cb = 1 /\ delivered[w][j].cb = 2
    /\ delivered[w][i].seq < delivered[w][j].seq

(***************************************************************************)
(* The sentinel: instance 1 closes while instance 2, which has registered  *)
(* its callback, goes on publishing (and receives its own messages).       *)
(***************************************************************************)
SentinelInit ==
  /\ Init
  /\ ignore_self = [w \in Inst |-> FALSE]

SentinelNext ==
  \/ CloseBeginWithin(Role.publisher, MaxOrderCalls)
  \/ ClosePublish(Role.publisher)
  \/ CloseAbort(Role.publisher)
  \/ UpdateWith(Role.subscriber, OrderCalls, MaxOrderCalls)
  \/ SetUpdateCallback(Role.subscriber, MaxOrderCalls)
  \/ \E k \in TaskIds : TaskSubscribe(Role.subscriber, k)
  \/ \E k \in TaskIds : TaskAcquire(Role.subscriber, k)
  \/ \E k \in TaskIds : TaskRecv(Role.subscriber, k)
  \/ \E k \in TaskIds : TaskHandle(Role.subscriber, k)

SentinelSpec == SentinelInit /\ [][SentinelNext]_vars

\* A loop of w ended on the sentinel that is entry n of the channel.
Stopped(w, n) == \E e \in skipped[w] : e.why = "stop" /\ e.seq = n

\* C22: the callback is not invoked for the sentinel, and once a loop of an
\* instance has ended on the sentinel the instance delivers no payload
\* published after it, unless set_update_callback was called again after the
\* sentinel was published.
C22_SentinelEndsDelivery ==
  [][\A w \in Inst : \A n \in 1..Len(channel_log) :
       /\ Stopped(w, n)' => \A i \in 1..Len(delivered'[w]) : delivered'[w][i].seq # n
       /\ (Stopped(w, n) /\ delivered'[w] # delivered[w]) =>
            LET d == delivered'[w][Len(delivered'[w])] IN
            ~(d.seq > n /\ d.registered_at < n)]_vars

(***************************************************************************)
(* Malformed payloads.                                                     *)
(***************************************************************************)
\* A payload that is neither the sentinel nor the encoding of a Message.
Malformed(p) == p.raw # "Close" /\ ~from_json(p).ok

\* Task k of w holds entry n of the channel, which is malformed, while the
\* next entry of its stream is a message that w accepts.
MalformedThenAccepted(w, k, n) ==
  /\ task[w][k].pc = "process" /\ task[w][k].cur.seq = n
  /\ Malformed(task[w][k].cur.payload)
  /\ inbox[w][Stream(k)] # <<>>
  /\ handle(w, Head(inbox[w][Stream(k)]).payload) = "invoke"

\* One instance subscribes and closes while other clients publish malformed
\* texts and messages; started tasks and a started close() run on.
SkipNext ==
  \/ ExternalPublish
  \/ SetUpdateCallback(Role.subscriber, MaxCalls)
  \/ StartSubscription(Role.subscriber, MaxCalls)
  \/ CloseBegin(Role.subscriber)
  \/ ClosePublish(Role.subscriber)
  \/ CloseAbort(Role.subscriber)
  \/ \E k \in TaskIds : TaskSubscribe(Role.subscriber, k)
  \/ \E k \in TaskIds : TaskAcquire(Role.subscriber, k)
  \/ \E k \in TaskIds : TaskRecv(Role.subscriber, k)
  \/ \E k \in TaskIds : TaskHandle(Role.subscriber, k)

SkipSpec ==
  /\ Init /\ [][SkipNext]_vars
  /\ WF_vars(ClosePublish(Role.subscriber)) /\ WF_vars(CloseAbort(Role.subscriber))
  /\ \A k \in TaskIds :
       /\ WF_vars(TaskSubscribe(Role.subscriber, k))
       /\ WF_vars(TaskAcquire(Role.subscriber, k))
       /\ WF_vars(TaskRecv(Role.subscriber, k))
       /\ WF_vars(TaskHandle(Role.subscriber, k))

\* C23: handling a malformed payload invokes no callback, returns no error to
\* a caller and leaves the loop waiting for the next payload with its stream
\* intact; the accepted message that follows it in the stream is delivered
\* (unless the instance is closed meanwhile).
C23_MalformedSkipped ==
  /\ [][\A w \in Inst, k \in TaskIds :
          (task[w][k].pc = "process" /\ Malformed(task[w][k].cur.payload)
             /\ TaskHandle(w, k)) =>
            /\ delivered' = delivered
            /\ last' = last
            /\ \E e \in skipped'[w] \ skipped[w] : e.why = "malformed"
            /\ task'[w][k].pc = IF task[w][k].aborted THEN "aborted" ELSE "waiting"
            /\ ~task[w][k].aborted =>
                 (inbox' = inbox /\ subscribed' = subscribed /\ rx_holder' = rx_holder)]_vars
  /\ \A w \in Inst, k \in TaskIds, n \in 1..MaxCalls :
       MalformedThenAccepted(w, k, n) ~>
         ((\E i \in 1..Len(delivered[w]) :
             delivered[w][i].seq > n /\ delivered[w][i].task = k) \/ is_closed[w])

\* A loop skipped a malformed payload and then delivered a later message.
C23_Witness ==
  \E w \in Inst : \E e \in skipped[w] :
    /\ e.why = "malformed"
    /\ \E i \in 1..Len(delivered[w]) :
         delivered[w][i].seq > e.seq /\ delivered[w][i].task = e.task

C25_ClosedTerminates ==
  \A w \in Inst :
    is_closed[w] ~> (\A k \in TaskIds : ~Live(task[w][k].pc))

LiveTasks(w) == {k \in TaskIds : Live(task[w][k].pc)}

\* C27: an instance never has more than one subscription task alive, however
\* often set_update_callback or start_subscription are called.
C27_OneSubscriptionTask ==
  \A w \in Inst : Cardinality(LiveTasks(w)) <= 1

\* C28: the callback of an instance is invoked for the payloads in the order
\* in which they arrived: no invocation for a payload comes after an invocation
\* for a payload that arrived later.
C28_ArrivalOrder ==
  \A w \in Inst : \A i, j \in 1..Len(delivered[w]) :
    i < j => delivered[w][i].seq <= delivered[w][j].seq

(***************************************************************************)
(* The closed flag.                                                        *)
(***************************************************************************)
\* C29: the closed flag is false when the instance is constructed, and once
\* it is set no step of any call or task clears it.
C29_ClosedIsTerminal ==
  /\ \A w \in Inst : ~is_closed[w]
  /\ [][\A w \in Inst : is_closed[w] => is_closed'[w]]_vars

\* close() has returned Ok on an instance, a subscription was started on it
\* before, and a later call on it found the flag still set.
C29_Witness ==
  \E w \in Inst :
    /\ is_closed[w] /\ close_returned[w] /\ api[w] = "idle"
    /\ task[w][1].pc # "unborn"
    /\ last.w = w /\ last.op # "close" /\ last.res = "AlreadyClosed"

(***************************************************************************)
(* The wire form of a Message.                                             *)
(***************************************************************************)
\* The key of each optional field, and the optional fields of m whose value
\* is not the default.
KeyOf ==
  [ sec |-> "Sec", ptype |-> "Ptype", old_rule |-> "OldRule", old_rules |-> "OldRules",
    new_rule |-> "NewRule", new_rules |-> "NewRules", field_index |-> "FieldIndex",
    field_values |-> "FieldValues" ]
NonDefault(m) == {f \in Fields : m[f] # Blank[f]}

\* C30 as stated: the encoded payload holds Method, ID and the keys of exactly
\* the optional fields that differ from their default (a field_index of 0 is
\* left out).
C30_DefaultsOmitted ==
  (codec.from \in Encoders) =>
    codec.text.keys = {"Method", "ID"} \cup {KeyOf[f] : f \in NonDefault(codec.msg)}

\* C30, amended: the encoded payload holds Method, ID, FieldIndex (also when
\* it is 0) and the keys of exactly the other optional fields that are not
\* empty, each with the value of the Message.
C30_EmptyOmitted ==
  (codec.from \in Encoders) =>
    LET m == codec.msg
        t == codec.text
    IN /\ t.raw = "json"
       /\ t.keys = {"Method", "ID", "FieldIndex"}
                     \cup {KeyOf[f] : f \in NonDefault(m) \ {"field_index"}}
       /\ t.val.method = m.method /\ t.val.id = m.id
       /\ t.val.field_index = m.field_index
       /\ \A f \in NonDefault(m) : t.val[f] = m[f]

\* A Message with an empty sec, a rule and field_index 0 was encoded: no Sec,
\* a NewRule and a FieldIndex.
C30_Witness ==
  /\ codec.from \in Encoders
  /\ codec.msg.sec = "" /\ codec.msg.new_rule # <<>> /\ codec.msg.field_index = 0
  /\ "Sec" \notin codec.text.keys
  /\ "NewRule" \in codec.text.keys
  /\ "FieldIndex" \in codec.text.keys

(***************************************************************************)
(* The options and the fields of the watcher.                              *)
(***************************************************************************)
\* C31: no step changes the options an instance was constructed with; a
\* published Message carries the constructed local_id and a loop filters with
\* the constructed ignore_self and local_id; an update call leaves the
\* callback slot, the closed flag, the subscription handle and the tasks as
\* they were.
C31_OptionsAndFieldsKept ==
  [][/\ ignore_self' = ignore_self /\ mode' = mode /\ urls' = urls
     /\ \A w \in Inst :
          /\ (calls' = calls + 1 /\ last'.op = "update" /\ last'.w = w /\ Update(w)) =>
               /\ callback' = callback /\ is_closed' = is_closed
               /\ subscription_handle' = subscription_handle /\ task' = task
               /\ registered_at' = registered_at
               /\ \A i \in 1..Len(last'.out) : HasId(last'.out[i], LocalId(w))
          /\ delivered'[w] # delivered[w] =>
               LET d == delivered'[w][Len(delivered'[w])] IN
               ~(ignore_self[w] /\ HasId(d.received, LocalId(w)))
          /\ \A e \in skipped'[w] \ skipped[w] :
               e.why = "filtered" => (ignore_self[w] /\ HasId(e.payload, LocalId(w)))]_vars

\* An instance constructed with ignore_self, with a callback and a stored
\* subscription handle, published an update and its loop filtered that message.
C31_Witness ==
  /\ last.op = "update" /\ last.res = "Ok"
  /\ ignore_self[last.w] /\ callback[last.w] # 0 /\ subscription_handle[last.w] # 0
  /\ \E e \in skipped[last.w] : e.why = "filtered" /\ e.payload = last.out[1]

(***************************************************************************)
(* The sentinel and the messages.                                          *)
(***************************************************************************)
\* C32: "Close" is no encoding of a Message; no payload an update operation
\* publishes is the sentinel or stops a loop; a loop that ends on a payload
\* ends on a "Close" that a close() call published.
C32_SentinelDisjoint ==
  [][/\ ~from_json(ClosePayload).ok
     /\ \A w \in Inst :
          (calls' = calls + 1 /\ last'.op = "update" /\ last'.w = w /\ Update(w)) =>
            \A i \in 1..Len(last'.out) :
              /\ last'.out[i].raw # "Close"
              /\ from_json(last'.out[i]).ok
              /\ \A v \in Inst : handle(v, last'.out[i]) # "stop"
     /\ \A w \in Inst, k \in TaskIds :
          (task[w][k].pc = "process" /\ ~task[w][k].aborted
             /\ task'[w][k].pc = "done" /\ TaskHandle(w, k)) =>
            /\ task[w][k].cur.payload = ClosePayload
            /\ \E v \in Inst : close_called[v] /\ channel_log[task[w][k].cur.seq] = v]_vars

\* A loop delivered the message of an update call and waits for the next
\* payload.
C32_Witness ==
  /\ last.op = "update" /\ last.res = "Ok"
  /\ \E v \in Inst, k \in TaskIds :
       /\ task[v][k].pc = "waiting"
       /\ \E i \in 1..Len(delivered[v]) :
            delivered[v][i].task = k /\ delivered[v][i].received = last.out[1]

(***************************************************************************)
(* default_update_callback: the handler decodes the payload and spawns one *)
(* task for it; the task locks the enforcer and makes the enforcer calls   *)
(* of the message's method.  The enforcer itself is outside the module: a  *)
(* task is modelled by the calls it makes, the result of a removal by a    *)
(* free choice.                                                            *)
(***************************************************************************)
MaxJobs == 2

\* `field_index as usize` on the i32 of the Message: a negative index wraps
\* (to usize::MAX - val).
as_usize(i) == [wrapped |-> i < 0, val |-> IF i < 0 THEN -(i + 1) ELSE i]

\* One call on the enforcer, with the arguments it is given.
EnforcerCall(op, ptype, rule, rules, index, values) ==
  [ op |-> op, ptype |-> ptype, rule |-> rule, rules |-> rules,
    index |-> index, values |-> values ]

\* What remove_named_policy / remove_named_policies may return.
Removals == {"true", "false", "err"}

\* a task that adds the new rule whatever the removal returned
reconcile_unconditional(m, removed) ==
  CASE m.method \in {"Update", "UpdateForSavePolicy"} ->
         <<EnforcerCall("load_policy", "", <<>>, <<>>, as_usize(0), <<>>)>>
    [] m.method = "UpdateForAddPolicy" ->
         <<EnforcerCall("add_named_policy", m.ptype, m.new_rule, <<>>, as_usize(0), <<>>)>>
    [] m.method = "UpdateForAddPolicies" ->
         <<EnforcerCall("add_named_policies", m.ptype, <<>>, m.new_rules, as_usize(0), <<>>)>>
    [] m.method = "UpdateForRemovePolicy" ->
         <<EnforcerCall("remove_named_policy", m.ptype, m.new_rule, <<>>, as_usize(0), <<>>)>>
    [] m.method = "UpdateForRemovePolicies" ->
         <<EnforcerCall("remove_named_policies", m.ptype, <<>>, m.new_rules, as_usize(0), <<>>)>>
    [] m.method = "UpdateForRemoveFilteredPolicy" ->
         <<EnforcerCall("remove_filtered_named_policy", m.ptype, <<>>, <<>>,
                        as_usize(m.field_index), m.field_values)>>
    [] m.method = "UpdateForUpdatePolicy" ->
         << EnforcerCall("remove_named_policy", m.ptype, m.old_rule, <<>>, as_usize(0), <<>>),
            EnforcerCall("add_named_policy", m.ptype, m.new_rule, <<>>, as_usize(0), <<>>) >>
    [] OTHER ->
         << EnforcerCall("remove_named_policies", m.ptype, <<>>, m.old_rules, as_usize(0), <<>>),
            EnforcerCall("add_named_policies", m.ptype, <<>>, m.new_rules, as_usize(0), <<>>) >>

\* The enforcer calls the task spawned for Message m makes, `removed` being
\* what the removal returns (unwrap_or(false) takes an error as false).
reconcile(m, removed) ==
  CASE m.method \in {"Update", "UpdateForSavePolicy"} ->
         <<EnforcerCall("load_policy", "", <<>>, <<>>, as_usize(0), <<>>)>>
    [] m.method = "UpdateForAddPolicy" ->
         <<EnforcerCall("add_named_policy", m.ptype, m.new_rule, <<>>, as_usize(0), <<>>)>>
    [] m.method = "UpdateForAddPolicies" ->
         <<EnforcerCall("add_named_policies", m.ptype, <<>>, m.new_rules, as_usize(0), <<>>)>>
    [] m.method = "UpdateForRemovePolicy" ->
         <<EnforcerCall("remove_named_policy", m.ptype, m.new_rule, <<>>, as_usize(0), <<>>)>>
    [] m.method = "UpdateForRemovePolicies" ->
         <<EnforcerCall("remove_named_policies", m.ptype, <<>>, m.new_rules, as_usize(0), <<>>)>>
    [] m.method = "UpdateForRemoveFilteredPolicy" ->
         <<EnforcerCall("remove_filtered_named_policy", m.ptype, <<>>, <<>>,
                        as_usize(m.field_index), m.field_values)>>
    [] m.method = "UpdateForUpdatePolicy" ->
         <<EnforcerCall("remove_named_policy", m.ptype, m.old_rule, <<>>, as_usize(0), <<>>)>>
           \o (IF removed = "true"
               THEN <<EnforcerCall("add_named_policy", m.ptype, m.new_rule, <<>>,
                                   as_usize(0), <<>>)>>
               ELSE <<>>)
    [] OTHER ->
         <<EnforcerCall("remove_named_policies", m.ptype, <<>>, m.old_rules, as_usize(0), <<>>)>>
           \o (IF removed = "true"
               THEN <<EnforcerCall("add_named_policies", m.ptype, <<>>, m.new_rules,
                                   as_usize(0), <<>>)>>
               ELSE <<>>)

\* The payloads the handler is called with: what the update operations
\* publish, and payloads that are no Message.
ReconcilePayloads ==
  {to_json(CallMessage(c, LocalId(Role.publisher))) : c \in BuildCalls}
    \cup {TextPayload(t) : t \in MalformedTexts}
    \cup {[to_json(CallMessage(c, LocalId(Role.publisher))) EXCEPT !.keys = @ \ {"Method"}] :
            c \in {x \in BuildCalls : x.op = "update"}}

\* The handler is called with payload p: it decodes it, logs and returns on a
\* decode error, and spawns a task for the Message otherwise.
DefaultCallback ==
  /\ calls < MaxJobs
  /\ \E p \in ReconcilePayloads :
       LET d == from_json(p) IN
       enforcer' = IF d.ok
                   THEN [enforcer EXCEPT !.spawned = Append(@, [payload |-> p, msg |-> d.msg])]
                   ELSE enforcer
  /\ calls' = calls + 1
  /\ UNCHANGED << codec, registered_at, urls, sub_node, subscribe_attempts, mode, ignore_self,
                  is_closed, callback, subscription_handle, api, task, subscribed, inbox,
                  rx_holder, channel_log, delivered, skipped, last, close_called,
                  close_returned, failures >>

\* A spawned task takes the enforcer lock, which it holds for all its calls.
\* The runtime polls spawned tasks in no fixed order.
ReconcileTask(j) ==
  /\ j \in (1..Len(enforcer.spawned)) \ enforcer.ran
  /\ \E removed \in Removals :
       enforcer' = [enforcer EXCEPT
         !.ran = @ \cup {j},
         !.applied = Append(@, [ job |-> j, removed |-> removed,
                                 made |-> reconcile(enforcer.spawned[j].msg, removed) ])]
  /\ UNCHANGED << codec, registered_at, urls, sub_node, subscribe_attempts, mode, ignore_self,
                  is_closed, callback, subscription_handle, api, task, subscribed, inbox,
                  rx_holder, channel_log, delivered, skipped, last, close_called,
                  close_returned, failures, calls >>

ReconcileNext ==
  \/ DefaultCallback
  \/ \E j \in 1..MaxJobs : ReconcileTask(j)

ReconcileSpec == BuildInit /\ [][ReconcileNext]_vars

\* The enforcer operation that mirrors update call c, written from the table of
\* the mutation kinds: the operation, and the arguments of the call it is given.
\* An update mirrors into a removal, then an addition if the removal succeeded.
Index(n) == [wrapped |-> FALSE, val |-> n]
Mirrored(op, c, rule) ==
  [ op |-> op, ptype |-> c.ptype,
    rule |-> IF op \in {"add_named_policy", "remove_named_policy"} THEN rule ELSE <<>>,
    rules |-> IF op \in {"add_named_policies", "remove_named_policies"} THEN <<rule>> ELSE <<>>,
    index |-> IF op = "remove_filtered_named_policy" THEN Index(c.field_index) ELSE Index(0),
    values |-> IF op = "remove_filtered_named_policy" THEN c.field_values ELSE <<>> ]
Reload == [ op |-> "load_policy", ptype |-> "", rule |-> <<>>, rules |-> <<>>,
            index |-> Index(0), values |-> <<>> ]
Mirror(c, succeeded) ==
  CASE c.op \in {"update", "update_for_save_policy"} -> <<Reload>>
    [] c.op = "update_for_add_policy" -> <<Mirrored("add_named_policy", c, c.rule)>>
    [] c.op = "update_for_add_policies" -> <<Mirrored("add_named_policies", c, c.rule)>>
    [] c.op = "update_for_remove_policy" -> <<Mirrored("remove_named_policy", c, c.rule)>>
    [] c.op = "update_for_remove_policies" -> <<Mirrored("remove_named_policies", c, c.rule)>>
    [] c.op = "update_for_remove_filtered_policy" ->
         <<Mirrored("remove_filtered_named_policy", c, <<>>)>>
    [] c.op = "update_for_update_policy" ->
         IF succeeded
         THEN << Mirrored("remove_named_policy", c, c.old_rule),
                 Mirrored("add_named_policy", c, c.rule) >>
         ELSE << Mirrored("remove_named_policy", c, c.old_rule) >>
    [] OTHER ->
         IF succeeded
         THEN << Mirrored("remove_named_policies", c, c.old_rule),
                 Mirrored("add_named_policies", c, c.rule) >>
         ELSE << Mirrored("remove_named_policies", c, c.old_rule) >>

\* C33: for every mutation kind, the default update callback applied to the
\* payload the update operation published makes the mirrored enforcer calls with
\* the published ptype and rule values: Update and SavePolicy reload, AddPolicy
\* and AddPolicies add, RemovePolicy and RemovePolicies remove,
\* RemoveFilteredPolicy passes the published field_index and field_values,
\* UpdatePolicy and UpdatePolicies remove the old rule(s) and add the new one(s)
\* only if the removal succeeded; a payload that does not decode spawns no task
\* and no call is made on the enforcer for it.
C33_MirroredOperation ==
  /\ \A j \in 1..Len(enforcer.spawned) : ~Malformed(enforcer.spawned[j].payload)
  /\ Len(enforcer.applied) <= Len(enforcer.spawned)
  /\ \A i \in 1..Len(enforcer.applied) :
       LET a == enforcer.applied[i] IN
       /\ a.job \in 1..Len(enforcer.spawned)
       /\ \A c \in BuildCalls :
            enforcer.spawned[a.job].payload = to_json(CallMessage(c, LocalId(Role.publisher)))
              => a.made = Mirror(c, a.removed = "true")

\* Two payloads were handled; one did not decode, the other was published by
\* update_for_update_policy and its task removed the old rule and added the new.
C33_Witness ==
  /\ calls = 2 /\ Len(enforcer.spawned) = 1 /\ Len(enforcer.applied) = 1
  /\ enforcer.spawned[1].msg.method = "UpdateForUpdatePolicy"
  /\ enforcer.spawned[1].msg.ptype = "g2"
  /\ enforcer.applied[1].removed = "true"
  /\ Len(enforcer.applied[1].made) = 2

\* C38: the default update callback applies reconciliations in delivery order:
\* of two payloads handed to it one after the other, the enforcer calls for the
\* first are made before those for the second, whatever the order in which the
\* tasks it spawned run.
C38_DeliveryOrder ==
  \A i \in 1..Len(enforcer.applied) : \A k \in 1..Len(enforcer.applied) :
    i < k => enforcer.applied[i].job < enforcer.applied[k].job

\* C34: close() on one instance stops delivery on that instance only: the
\* subscription loop of an instance on which close() was never called is not
\* ended by the close of another instance, so it goes on delivering what is
\* published afterwards.
C34_CloseIsolated ==
  \A w \in Inst :
    ~close_called[w] =>
      /\ \A e \in skipped[w] : e.why # "stop"
      /\ \A k \in TaskIds : task[w][k].pc # "done"

\* C35: each payload an instance accepts is passed to its callback exactly once,
\* also after set_update_callback or start_subscription was called more than
\* once on the instance: no entry of the channel is delivered twice to the same
\* instance.
C35_DeliveredOnce ==
  \A w \in Inst : \A i \in 1..Len(delivered[w]) : \A k \in 1..Len(delivered[w]) :
    delivered[w][i].seq = delivered[w][k].seq => i = k

\* C36: a set_update_callback call that fails with AlreadyClosed leaves the
\* instance unchanged: the callback slot holds the same handler (or none) as
\* before the call, and no subscription task is started.
C36_FailedRegistrationNoEffect ==
  [][\A w \in Inst :
       ( /\ calls' = calls + 1
         /\ last'.op = "set_update_callback" /\ last'.w = w
         /\ last'.res = "AlreadyClosed" )
       => /\ callback'[w] = callback[w]
          /\ task'[w] = task[w]
          /\ subscription_handle'[w] = subscription_handle[w]]_vars

\* C37: when set_update_callback (or start_subscription) has returned Ok the
\* subscription is established: a well-formed message that w does not filter,
\* published after the call returned, reaches a subscription of w, from which
\* the loop delivers it.  No instance has called close() and no task of w has
\* ended, so nothing but the time between the Ok and the subscribe is left to
\* lose the message.
C37_EstablishedOnOk ==
  [][ \A w \in Inst : \A p \in Inst :
        ( /\ calls' = calls + 1
          /\ Started(w) /\ callback[w] # 0
          /\ \A v \in Inst : ~close_called[v]
          /\ \A k \in TaskIds : ~Ended(task[w][k].pc)
          /\ ~is_filtered(ignore_self[w], LocalId(p), LocalId(w))
          /\ Published(p) )
        => \E c \in Conns : inbox'[w][c] = Append(inbox[w][c], PublishedEntry) ]_vars

====
